---- MODULE Spec2Model ----
(***************************************************************************)
(* Model of the Tuva schema parser (parseYamlFile, extractDocumentation,   *)
(* parseTuvaSchema) and of the Pinecone setup run (initializeIndex,        *)
(* uploadToPinecone, setupTuva) of src/setup-tuva.js.                      *)
(*                                                                         *)
(* Three specifications share the variables:                               *)
(*   SpecParse  one run of parseTuvaSchema over source files and           *)
(*              documentation files drawn from bounded sets;               *)
(*   Spec       runs of setupTuva against a vector store, the upload loop  *)
(*              of uploadToPinecone modelled one await at a time;          *)
(*   SpecQuery  one request to the query orchestrator with its SQL safety  *)
(*              validator, whose code is not in src/ and is modelled from  *)
(*              the design document.                                       *)
(***************************************************************************)
EXTENDS Integers, Sequences, FiniteSets, TLC

(***************************************************************************)
(* Bounds of the model.                                                    *)
(***************************************************************************)
MaxFiles == 2
MaxDocFiles == 2
MaxModels == 2
MaxCols == 2
MaxBatches == 2
MaxRuns == 2
MaxTokens == 3
MaxRows == 2

(***************************************************************************)
(* Program constants.                                                      *)
(***************************************************************************)
batchSize == 100
EMBEDDING_DIMENSIONS == 1536

(***************************************************************************)
(* JavaScript values as yaml.load returns them: a value is a record whose  *)
(* field t is its tag.  An object keeps its properties in insertion order, *)
(* which is the order Object.keys enumerates them in.                      *)
(***************************************************************************)
Undefined == [t |-> "undefined"]
Null == [t |-> "null"]
Str(s) == [t |-> "string", s |-> s]
Num(n) == [t |-> "number", n |-> n]
Arr(items) == [t |-> "array", items |-> items]
Obj(props) == [t |-> "object", props |-> props]
Prop(k, v) == [k |-> k, v |-> v]

\* v == null || v === undefined: reading a property of such a value throws
IsNullish(v) == v.t \in {"undefined", "null"}

\* the truthiness the operators &&, || and if test
Truthy(v) ==
  CASE v.t \in {"undefined", "null"} -> FALSE
    [] v.t = "string" -> v.s # ""
    [] v.t = "number" -> v.n # 0
    [] OTHER -> TRUE

\* typeof v === 'object' (true of null and of arrays too)
TypeofObject(v) == v.t \in {"null", "array", "object"}

HasProp(v, k) == v.t = "object" /\ \E i \in 1..Len(v.props) : v.props[i].k = k

\* v[k] / v.k on a value that is not nullish: undefined when there is no such property
Get(v, k) ==
  IF HasProp(v, k)
    THEN v.props[CHOOSE i \in 1..Len(v.props) : v.props[i].k = k].v
    ELSE Undefined

\* a || b
Or(a, b) == IF Truthy(a) THEN a ELSE b

\* v?.k
OptGet(v, k) == IF IsNullish(v) THEN Undefined ELSE Get(v, k)

\* the elements of an array value
ItemsOf(v) == IF v.t = "array" THEN v.items ELSE <<>>

\* Object.keys(v).forEach(key => ... v[key] ...): the (key, value) pairs visited
Entries(v) ==
  CASE v.t = "object" -> v.props
    [] v.t = "array" -> [i \in 1..Len(v.items) |-> Prop(ToString(i - 1), v.items[i])]
    [] OTHER -> <<>>

\* obj[k] = v on an object value
SetProp(obj, k, v) ==
  IF HasProp(obj, k)
    THEN Obj([i \in 1..Len(obj.props) |->
                IF obj.props[i].k = k THEN Prop(k, v) ELSE obj.props[i]])
    ELSE Obj(Append(obj.props, Prop(k, v)))

(***************************************************************************)
(* parseYamlFile, lines 264-314.                                           *)
(***************************************************************************)
\* columns.map(callback) throws when columns has no map method (it is no array)
\* or when the callback reads a property of a null or undefined element
MapThrows(columns) ==
  \/ columns.t # "array"
  \/ \E i \in 1..Len(columns.items) : IsNullish(columns.items[i])

\* the map callback of the versioned branch, lines 283-287
ColumnA(col) ==
  [name |-> Get(col, "name"),
   type |-> Or(Get(col, "data_type"), Or(Get(col, "dataType"), Str("TEXT"))),
   description |-> Or(Get(col, "description"), Str(""))]

\* ColumnB without the typeof col === 'string' tests
ColumnBAsObject(col) ==
  [name |-> Get(col, "name"),
   type |-> Or(Get(col, "type"), Or(Get(col, "data_type"), Str("TEXT"))),
   description |-> Or(Get(col, "description"), Str(""))]

\* the map callback of the generic branch, lines 298-302
ColumnB(col) ==
  IF col.t = "string"
    THEN [name |-> col, type |-> Str("TEXT"), description |-> Str("")]
    ELSE [name |-> Get(col, "name"),
          type |-> Or(Get(col, "type"), Or(Get(col, "data_type"), Str("TEXT"))),
          description |-> Or(Get(col, "description"), Str(""))]

\* the test of line 279 without its model.columns operand
ModelMatchesNameOnly(model) == Truthy(Get(model, "name"))

\* if (model.name && model.columns), line 279
ModelMatches(model) == Truthy(Get(model, "name")) /\ Truthy(Get(model, "columns"))

\* the record pushed at lines 280-288
ModelSchema(model) ==
  LET cols == ItemsOf(Get(model, "columns")) IN
  [table_name |-> Get(model, "name"),
   description |-> Or(Get(model, "description"),
                      Or(OptGet(OptGet(Get(model, "docs"), "meta"), "description"), Str(""))),
   columns |-> [i \in 1..Len(cols) |-> ColumnA(cols[i])]]

\* one pass of the loop body at lines 278-290 throws
ModelThrows(model) ==
  \/ IsNullish(model)
  \/ ModelMatches(model) /\ MapThrows(Get(model, "columns"))

\* const models = data.models || [], line 276
ModelsOf(data) == Or(Get(data, "models"), Arr(<<>>))

\* for (const model of models): a number or a plain object is not iterable
IterateThrows(models) == models.t \in {"number", "object"}

\* the values the for-of loop visits; the characters of a string are primitive
\* strings, whose name and columns are undefined, so they are visited as such
Iterate(models) ==
  CASE models.t = "array" -> models.items
    [] models.t = "string" -> [i \in 1..Len(models.s) |-> Str("char")]
    [] OTHER -> <<>>

\* the versioned branch, lines 275-290
SchemasA(data) ==
  LET matching == SelectSeq(Iterate(ModelsOf(data)), ModelMatches) IN
  [i \in 1..Len(matching) |-> ModelSchema(matching[i])]

ThrowsA(data) ==
  \/ IterateThrows(ModelsOf(data))
  \/ \E i \in 1..Len(Iterate(ModelsOf(data))) : ModelThrows(Iterate(ModelsOf(data))[i])

\* if (typeof data[key] === 'object' && data[key].columns), line 294
EntryMatches(e) == TypeofObject(e.v) /\ Truthy(Get(e.v, "columns"))

\* the record pushed at lines 295-303
EntrySchema(e) ==
  LET cols == ItemsOf(Or(Get(e.v, "columns"), Arr(<<>>))) IN
  [table_name |-> Str(e.k),
   description |-> Or(Get(e.v, "description"), Str("")),
   columns |-> [i \in 1..Len(cols) |-> ColumnB(cols[i])]]

\* one call of the forEach callback at lines 293-305 throws: null passes the
\* typeof test and null.columns throws
EntryThrows(e) ==
  \/ e.v.t = "null"
  \/ EntryMatches(e) /\ MapThrows(Or(Get(e.v, "columns"), Arr(<<>>)))

\* the generic branch, lines 292-305
SchemasB(data) ==
  LET matching == SelectSeq(Entries(data), EntryMatches) IN
  [i \in 1..Len(matching) |-> EntrySchema(matching[i])]

ThrowsB(data) == \E i \in 1..Len(Entries(data)) : EntryThrows(Entries(data)[i])

\* if (data && typeof data === 'object'), line 272
IsStructured(data) == Truthy(data) /\ TypeofObject(data)

\* if (data.version === 2), line 274
IsVersioned(data) == Get(data, "version") = Num(2)

\* A source file: readable is FALSE when readFileSync or yaml.load throws,
\* else data is the loaded value.
SourceFile(data) == [readable |-> TRUE, data |-> data]
Unreadable == [readable |-> FALSE, data |-> Undefined]

\* the try block of parseYamlFile throws
ParseThrows(file) ==
  \/ ~file.readable
  \/ /\ IsStructured(file.data)
     /\ IF IsVersioned(file.data) THEN ThrowsA(file.data) ELSE ThrowsB(file.data)

\* parseYamlFile(filePath): the catch returns []
parseYamlFile(file) ==
  IF ParseThrows(file) THEN <<>>
  ELSE IF ~IsStructured(file.data) THEN <<>>
  ELSE IF IsVersioned(file.data) THEN SchemasA(file.data)
  ELSE SchemasB(file.data)

(***************************************************************************)
(* extractDocumentation, lines 319-346, and the merge of parseTuvaSchema,  *)
(* lines 385-392.                                                          *)
(***************************************************************************)
RECURSIVE AssignAll(_, _, _)
\* Object.keys(data).forEach(key => { documentation[key] = data[key] }), lines 336-338
AssignAll(documentation, entries, i) ==
  IF i > Len(entries) THEN documentation
  ELSE AssignAll(SetProp(documentation, entries[i].k, entries[i].v), entries, i + 1)

RECURSIVE ReadDocFiles(_, _, _)
\* the loop at lines 330-343: a file that cannot be read or loaded is skipped
ReadDocFiles(documentation, dfiles, i) ==
  IF i > Len(dfiles) THEN documentation
  ELSE IF dfiles[i].readable /\ IsStructured(dfiles[i].data)
    THEN ReadDocFiles(AssignAll(documentation, Entries(dfiles[i].data), 1), dfiles, i + 1)
    ELSE ReadDocFiles(documentation, dfiles, i + 1)

\* extractDocumentation(): {} when the documentation directory is missing
extractDocumentation(dirExists, dfiles) ==
  IF ~dirExists THEN Obj(<<>>) ELSE ReadDocFiles(Obj(<<>>), dfiles, 1)

\* the property key a value is coerced to
KeyOf(v) ==
  CASE v.t = "string" -> v.s
    [] v.t = "number" -> ToString(v.n)
    [] OTHER -> "[object Object]"

\* the merge with the documentation's description ahead of the table's own
EnrichDocFirst(schema, documentation) ==
  LET doc == Or(Get(documentation, KeyOf(schema.table_name)), Obj(<<>>)) IN
  [table_name |-> schema.table_name,
   description |-> Or(Get(doc, "description"),
                      Or(schema.description, Or(Get(doc, "content"), Str("")))),
   columns |-> schema.columns,
   full_description |-> Or(Get(doc, "content"), schema.description)]

\* the callback of allSchemas.map at lines 385-392
Enrich(schema, documentation) ==
  LET doc == Or(Get(documentation, KeyOf(schema.table_name)), Obj(<<>>)) IN
  [table_name |-> schema.table_name,
   description |-> Or(schema.description,
                      Or(Get(doc, "description"), Or(Get(doc, "content"), Str("")))),
   columns |-> schema.columns,
   full_description |-> Or(Get(doc, "content"), schema.description)]

EnrichAll(schemas, documentation) ==
  [i \in 1..Len(schemas) |-> Enrich(schemas[i], documentation)]

(***************************************************************************)
(* The inputs of the parser: source documents and documentation files.     *)
(***************************************************************************)
SeqsUpTo(S, n) == UNION {[1..k -> S] : k \in 0..n}

ColPlain == Obj(<<Prop("name", Str("c1"))>>)
ColDataType ==
  Obj(<<Prop("name", Str("c2")), Prop("data_type", Str("INT")),
        Prop("description", Str("cd"))>>)
ColCamelType == Obj(<<Prop("name", Str("c3")), Prop("dataType", Str("FLOAT"))>>)
ColType == Obj(<<Prop("name", Str("c4")), Prop("type", Str("DATE"))>>)
ColAllTypes ==
  Obj(<<Prop("name", Str("c5")), Prop("type", Str("DATE")),
        Prop("data_type", Str("INT")), Prop("dataType", Str("FLOAT"))>>)
ColBare == Str("c6")

ColObjs == {ColPlain, ColDataType, ColCamelType, ColType, ColAllTypes}
\* what a columns list may hold: objects, bare names, and a null element
ColEntries == ColObjs \cup {ColBare, Null}
ColLists == SeqsUpTo(ColEntries, MaxCols)

NoProps == <<>>
HeadOwn == <<Prop("name", Str("t1")), Prop("description", Str("own"))>>
HeadMeta ==
  <<Prop("name", Str("t2")),
    Prop("docs", Obj(<<Prop("meta", Obj(<<Prop("description", Str("meta"))>>))>>))>>
HeadName == <<Prop("name", Str("t1"))>>
HeadEmptyName == <<Prop("name", Str(""))>>
ModelHeads == {NoProps, HeadOwn, HeadMeta, HeadName, HeadEmptyName}

WithColumns(head, columns) == Obj(head \o <<Prop("columns", columns)>>)

VersionedData(models) == Obj(<<Prop("version", Num(2)), Prop("models", models)>>)

\* one model entry, every head with every columns list
RichModels == {WithColumns(h, Arr(l)) : h \in ModelHeads, l \in ColLists}

\* several model entries: with and without a name, with no columns, an empty
\* list, a list, a columns value that is no list; and a null entry
SimpleColumns == {Arr(<<>>), Arr(<<ColDataType, ColPlain>>), Str("oops")}
SimpleModels ==
  {Obj(h) : h \in ModelHeads \ {HeadEmptyName}}
    \cup {WithColumns(h, c) : h \in ModelHeads \ {HeadEmptyName}, c \in SimpleColumns}
    \cup {Null}

ShapeADocs ==
  {SourceFile(VersionedData(Arr(<<m>>))) : m \in RichModels}
    \cup {SourceFile(VersionedData(Arr(ms))) : ms \in SeqsUpTo(SimpleModels, MaxModels)}
    \cup {SourceFile(Obj(<<Prop("version", Num(2))>>)),
          SourceFile(VersionedData(Num(7))),
          SourceFile(VersionedData(Str("abc")))}

\* the value of one key of a keyed map
RichTables ==
  {WithColumns(h, Arr(l)) : h \in {NoProps, <<Prop("description", Str("own"))>>},
                            l \in ColLists}
SimpleTables ==
  {Null, Str("scalar"), Num(1), Obj(<<Prop("description", Str("own"))>>),
   WithColumns(NoProps, Arr(<<ColBare>>)),
   WithColumns(<<Prop("description", Str("own"))>>, Arr(<<ColDataType, ColBare>>)),
   WithColumns(NoProps, Arr(<<>>)),
   WithColumns(NoProps, Str("oops"))}

KeyName(i) == "t" \o ToString(i)
KeyedData(vals) == Obj([i \in 1..Len(vals) |-> Prop(KeyName(i), vals[i])])

ShapeBDocs ==
  {SourceFile(KeyedData(<<v>>)) : v \in RichTables}
    \cup {SourceFile(KeyedData(vs)) : vs \in SeqsUpTo(SimpleTables, MaxModels)}
    \cup {SourceFile(Obj(<<Prop("version", Num(1)),
                           Prop("t1", WithColumns(NoProps, Arr(<<ColBare>>)))>>)),
          SourceFile(Arr(<<WithColumns(NoProps, Arr(<<ColBare>>))>>))}

OtherDocs == {Unreadable, SourceFile(Null), SourceFile(Str("text")), SourceFile(Num(2))}

AllDocs == ShapeADocs \cup ShapeBDocs \cup OtherDocs

\* the documents of the runs over several files
SmallDocs ==
  {Unreadable,
   SourceFile(Null),
   SourceFile(VersionedData(Arr(<<WithColumns(HeadOwn, Arr(<<ColDataType, ColPlain>>))>>))),
   SourceFile(VersionedData(Arr(<<WithColumns(HeadMeta, Arr(<<ColPlain>>)),
                                  WithColumns(HeadName, Arr(<<ColCamelType>>))>>))),
   SourceFile(VersionedData(Arr(<<WithColumns(HeadOwn, Arr(<<ColPlain>>)), Null>>))),
   SourceFile(KeyedData(<<WithColumns(NoProps, Arr(<<ColBare>>))>>)),
   SourceFile(KeyedData(<<WithColumns(NoProps, Arr(<<ColType>>)), Null>>)),
   SourceFile(KeyedData(<<WithColumns(<<Prop("description", Str("own"))>>, Arr(<<ColType>>)),
                          WithColumns(NoProps, Arr(<<>>))>>))}

\* documentation files
DocEntry(k, v) == SourceFile(Obj(<<Prop(k, v)>>))
DocDocs ==
  {Unreadable,
   SourceFile(Null),
   DocEntry("t1", Obj(<<Prop("description", Str("docd")), Prop("content", Str("docc"))>>)),
   DocEntry("t1", Obj(<<Prop("content", Str("docc2"))>>)),
   DocEntry("t1", Str("text")),
   SourceFile(Obj(<<Prop("t2", Obj(<<Prop("description", Str("docd2"))>>)),
                    Prop("t1", Null)>>))}

\* the source files of the runs over several documentation files
DescribedDocs ==
  {SourceFile(VersionedData(Arr(<<WithColumns(HeadOwn, Arr(<<ColPlain>>)),
                                  WithColumns(<<Prop("name", Str("t2"))>>, Arr(<<ColPlain>>))>>))),
   SourceFile(VersionedData(Arr(<<WithColumns(HeadName, Arr(<<ColPlain>>))>>))),
   SourceFile(KeyedData(<<WithColumns(NoProps, Arr(<<ColBare>>)),
                          WithColumns(<<Prop("description", Str("own"))>>, Arr(<<ColBare>>))>>))}

Repo(fs, dir, dfs) == [files |-> fs, docsDir |-> dir, docFiles |-> dfs]

\* the repository contents a run of parseTuvaSchema starts from
Repos ==
  {Repo(<<d>>, FALSE, <<>>) : d \in AllDocs}
    \cup {Repo(fs, TRUE, <<DocEntry("t1", Obj(<<Prop("description", Str("docd"))>>))>>) :
            fs \in SeqsUpTo(SmallDocs, MaxFiles)}
    \cup {Repo(<<d>>, TRUE, dfs) : d \in DescribedDocs, dfs \in SeqsUpTo(DocDocs, MaxDocFiles)}

(***************************************************************************)
(* State.                                                                  *)
(***************************************************************************)
VARIABLES
  repo,           \* the cloned repository: source files, documentation files
  ppc,            \* where parseTuvaSchema is
  fileIdx,        \* the position of the loop at line 374 in yamlFiles
  allSchemas,     \* allSchemas, line 372
  parsed,         \* what parseYamlFile returned for each file so far
  documentation,  \* the map extractDocumentation returned
  returned,       \* the outcome of parseTuvaSchema
  outputFile      \* the content of OUTPUT_FILE

VARIABLES
  catalogSize,    \* the number of tables of the catalog the setup run parses
  spc,            \* where setupTuva (initializeIndex, uploadToPinecone) is
  run,            \* the number of this run of setupTuva
  index,          \* the vector store's index of the configured name
  store,          \* the records of the index, by id
  store0,         \* the records the index held before the first run
  loopI,          \* the loop variable i of uploadToPinecone, line 113
  uploaded,       \* uploaded, line 111
  inflight,       \* per batch, the embedding requests issued and not settled
  upsertInFlight, \* the batch whose upsert is issued and not settled, or 0
  hist,           \* what this run has done so far
  prior           \* how the run before this one ended

\* the state of one request to the query orchestrator: its position, the
\* tables retrieved, the statement authored, the validator's verdict, the
\* calls made to the execution collaborator and the response
VARIABLES qpc, retrieval, statement, verdict, executions, response

queryVars == <<qpc, retrieval, statement, verdict, executions, response>>

parseVars ==
  <<repo, ppc, fileIdx, allSchemas, parsed, documentation, returned, outputFile>>

setupVars ==
  <<catalogSize, spc, run, index, store, store0, loopI, uploaded, inflight,
    upsertInFlight, hist, prior>>

vars == <<parseVars, setupVars, queryVars>>

NoFile == [written |-> FALSE, total_tables |-> 0, schemas |-> <<>>]
Pending == [kind |-> "pending", schemas |-> <<>>]

NoIndex == [exists |-> FALSE, ready |-> FALSE, dimension |-> 0, metric |-> "none"]
NoHistory ==
  [embedIssued |-> {}, embedFailed |-> 0, upsertIssued |-> <<>>, upsertDone |-> {},
   unreadyUpserts |-> 0, listCalls |-> 0, createCalls |-> 0, waits |-> 0, pauses |-> 0,
   error |-> "none", uploadResult |-> [t |-> "pending"],
   indexExists |-> "unknown", handle |-> FALSE, upsertRanges |-> <<>>,
   parse |-> "pending"]

NoVerdict == [kind |-> "none", reason |-> "none"]
NoResponse == [kind |-> "none", stage |-> "none", reason |-> "none", rowCount |-> 0]

\* the orchestrator while setup or the parser is run
QueryIdle ==
  /\ qpc = "idle"
  /\ retrieval = <<>>
  /\ statement = <<>>
  /\ verdict = NoVerdict
  /\ executions = 0
  /\ response = NoResponse

\* the setup run while the parser alone is run
SetupIdle ==
  /\ catalogSize = 0
  /\ spc = "idle"
  /\ run = 0
  /\ index = NoIndex
  /\ store = <<>>
  /\ store0 = <<>>
  /\ loopI = 0
  /\ uploaded = 0
  /\ inflight = <<>>
  /\ upsertInFlight = 0
  /\ hist = NoHistory
  /\ prior = "none"

(***************************************************************************)
(* parseTuvaSchema, lines 351-415.                                         *)
(***************************************************************************)
InitParse ==
  /\ QueryIdle
  /\ repo \in Repos
  /\ ppc = "clone"
  /\ fileIdx = 1
  /\ allSchemas = <<>>
  /\ parsed = <<>>
  /\ documentation = Obj(<<>>)
  /\ returned = Pending
  /\ outputFile = NoFile
  /\ SetupIdle

\* await cloneTuvaRepo(), line 354
CloneDone ==
  /\ ppc = "clone"
  /\ ppc' = "scan"
  /\ UNCHANGED <<repo, fileIdx, allSchemas, parsed, documentation, returned, outputFile, setupVars, queryVars>>

\* cloneTuvaRepo rejects: the catch at lines 411-414 rethrows
CloneFails ==
  /\ ppc = "clone"
  /\ ppc' = "done"
  /\ returned' = [kind |-> "thrown", schemas |-> <<>>]
  /\ UNCHANGED <<repo, fileIdx, allSchemas, parsed, documentation, outputFile, setupVars, queryVars>>

\* the models directory is missing: return undefined, lines 359-365
NoModelsDir ==
  /\ ppc = "scan"
  /\ ppc' = "done"
  /\ returned' = [kind |-> "undefined", schemas |-> <<>>]
  /\ UNCHANGED <<repo, fileIdx, allSchemas, parsed, documentation, outputFile, setupVars, queryVars>>

\* findYamlFiles(modelsDir), lines 367-372
ScanModels ==
  /\ ppc = "scan"
  /\ ppc' = "files"
  /\ fileIdx' = 1
  /\ allSchemas' = <<>>
  /\ UNCHANGED <<repo, parsed, documentation, returned, outputFile, setupVars, queryVars>>

\* the loop with a parseYamlFile whose catch rethrows: a failing file ends the run
ParseNextFileAborting ==
  /\ ppc = "files"
  /\ fileIdx <= Len(repo.files)
  /\ IF ParseThrows(repo.files[fileIdx])
       THEN /\ ppc' = "done"
            /\ returned' = [kind |-> "thrown", schemas |-> <<>>]
            /\ UNCHANGED allSchemas
       ELSE /\ allSchemas' = allSchemas \o parseYamlFile(repo.files[fileIdx])
            /\ UNCHANGED <<ppc, returned>>
  /\ parsed' = Append(parsed, parseYamlFile(repo.files[fileIdx]))
  /\ fileIdx' = fileIdx + 1
  /\ UNCHANGED <<repo, documentation, outputFile, setupVars, queryVars>>

\* one pass of the loop at lines 374-377
ParseNextFile ==
  /\ ppc = "files"
  /\ fileIdx <= Len(repo.files)
  /\ LET schemas == parseYamlFile(repo.files[fileIdx]) IN
       /\ allSchemas' = allSchemas \o schemas
       /\ parsed' = Append(parsed, schemas)
  /\ fileIdx' = fileIdx + 1
  /\ UNCHANGED <<repo, ppc, documentation, returned, outputFile, setupVars, queryVars>>

\* steps 4 to 7, lines 381-409: documentation, merge, save, return
MergeAndSave ==
  /\ ppc = "files"
  /\ fileIdx > Len(repo.files)
  /\ LET docs == extractDocumentation(repo.docsDir, repo.docFiles)
         enrichedSchemas == EnrichAll(allSchemas, docs)
     IN /\ documentation' = docs
        /\ outputFile' = [written |-> TRUE, total_tables |-> Len(enrichedSchemas),
                          schemas |-> enrichedSchemas]
        /\ returned' = [kind |-> "value", schemas |-> enrichedSchemas]
  /\ ppc' = "done"
  /\ UNCHANGED <<repo, fileIdx, allSchemas, parsed, setupVars, queryVars>>

NextParse ==
  \/ CloneDone
  \/ CloneFails
  \/ NoModelsDir
  \/ ScanModels
  \/ ParseNextFile
  \/ MergeAndSave

SpecParse == InitParse /\ [][NextParse]_vars

(***************************************************************************)
(* Properties of the parser, checked under SpecParse.                      *)
(***************************************************************************)
ParseReturned == ppc = "done" /\ returned.kind = "value"

IsName(v) == v.t = "string" /\ v.s # ""
IsColumnList(v) == v.t = "array"

\* the file is a versioned model list: version marker 2, a list of model
\* objects, each column list (where there is one) a list of column objects
ValidShapeA(file) ==
  /\ file.readable
  /\ file.data.t = "object"
  /\ Get(file.data, "version") = Num(2)
  /\ Get(file.data, "models").t = "array"
  /\ \A i \in 1..Len(Get(file.data, "models").items) :
       LET m == Get(file.data, "models").items[i] IN
         /\ m.t = "object"
         /\ Get(m, "name").t \in {"undefined", "string"}
         /\ Get(m, "columns").t \in {"undefined", "array"}
         /\ \A j \in 1..Len(ItemsOf(Get(m, "columns"))) :
              ItemsOf(Get(m, "columns"))[j].t = "object"

\* the file is a keyed map: an object without the version marker 2
ShapeB(file) ==
  /\ file.readable
  /\ file.data.t = "object"
  /\ Get(file.data, "version") # Num(2)

\* every value of the keyed map is a table object with a list of columns that
\* are bare names or objects
WellFormedB(file) ==
  /\ ShapeB(file)
  /\ \A i \in 1..Len(file.data.props) :
       LET v == file.data.props[i].v IN
         /\ v.t = "object"
         /\ Get(v, "columns").t = "array"
         /\ \A j \in 1..Len(Get(v, "columns").items) :
              Get(v, "columns").items[j].t \in {"string", "object"}

NamedWithColumns(m) == IsName(Get(m, "name")) /\ IsColumnList(Get(m, "columns"))
NamedWithSomeColumns(m) == NamedWithColumns(m) /\ Len(Get(m, "columns").items) > 0
KeyWithColumns(e) == e.v.t = "object" /\ IsColumnList(Get(e.v, "columns"))

ColumnNames(cols) == [j \in 1..Len(cols) |-> Get(cols[j], "name")]
SchemaColumnNames(schema) == [j \in 1..Len(schema.columns) |-> schema.columns[j].name]

\* schemas holds one record per entry of models, in order, with its name and
\* its columns in their order
OneRecordPerModel(schemas, models) ==
  /\ Len(schemas) = Len(models)
  /\ \A k \in 1..Len(models) :
       /\ schemas[k].table_name = Get(models[k], "name")
       /\ SchemaColumnNames(schemas[k]) = ColumnNames(Get(models[k], "columns").items)

\* C4 (as claimed): the returned catalog, which is also the one saved, holds
\* each table name once.
C4_UniqueTableNames ==
  ParseReturned =>
    /\ outputFile.schemas = returned.schemas
    /\ \A i, j \in 1..Len(returned.schemas) :
         i # j => returned.schemas[i].table_name # returned.schemas[j].table_name

RECURSIVE FlattenFrom(_, _)
FlattenFrom(seqs, i) == IF i > Len(seqs) THEN <<>> ELSE seqs[i] \o FlattenFrom(seqs, i + 1)

Core(schema) ==
  [table_name |-> schema.table_name, columns |-> schema.columns]

\* C6: a source file whose reading or parsing throws yields no record and does
\* not end the run; the catalog is the records of the other files, in file
\* order.
C6_PartialFailureTolerant ==
  /\ returned.kind = "thrown" => parsed = <<>>
  /\ Len(parsed) = fileIdx - 1
  /\ \A i \in 1..Len(parsed) : ParseThrows(repo.files[i]) => parsed[i] = <<>>
  /\ ppc = "files" => allSchemas = FlattenFrom(parsed, 1)
  /\ ParseReturned =>
       LET expected ==
             FlattenFrom([i \in 1..Len(repo.files) |->
                            IF ParseThrows(repo.files[i]) THEN <<>>
                            ELSE parseYamlFile(repo.files[i])], 1)
       IN /\ Len(parsed) = Len(repo.files)
          /\ Len(returned.schemas) = Len(expected)
          /\ \A k \in 1..Len(expected) : Core(returned.schemas[k]) = Core(expected[k])

C6_Witness ==
  /\ ParseReturned
  /\ \E i, j \in 1..Len(repo.files) :
       i < j /\ ParseThrows(repo.files[i]) /\ parsed[j] # <<>>
  /\ returned.schemas # <<>>

\* C7 (as claimed): a valid versioned document yields one record for each model
\* with a name and a non-empty column list, with that name and the columns in
\* order, and no other record.
C7_NonEmptyColumnsOnly ==
  \A i \in 1..Len(parsed) :
    ValidShapeA(repo.files[i]) =>
      OneRecordPerModel(parsed[i],
        SelectSeq(Get(repo.files[i].data, "models").items, NamedWithSomeColumns))

\* C7 (amended): a valid versioned document yields one record for each model
\* with a name and a column list, empty or not, with that name and the columns
\* in order, and no record for a model without a name or without a column list.
C7_OneRecordPerNamedModel ==
  \A i \in 1..Len(parsed) :
    ValidShapeA(repo.files[i]) =>
      OneRecordPerModel(parsed[i],
        SelectSeq(Get(repo.files[i].data, "models").items, NamedWithColumns))

C7_Witness ==
  \E i \in 1..Len(parsed) :
    /\ ValidShapeA(repo.files[i])
    /\ Len(parsed[i]) = 1
    /\ Len(Get(repo.files[i].data, "models").items) = 2
    /\ Len(parsed[i][1].columns) = 2
    /\ parsed[i][1].columns[1].name # parsed[i][1].columns[2].name

\* C8: in a keyed-map document a bare-string column becomes the column of that
\* name, of type "TEXT", with the empty description, at the same position.
C8_BareStringColumns ==
  \A i \in 1..Len(parsed) :
    (ShapeB(repo.files[i]) /\ (WellFormedB(repo.files[i]) \/ parsed[i] # <<>>)) =>
      LET tables == SelectSeq(Entries(repo.files[i].data), KeyWithColumns) IN
        /\ Len(parsed[i]) = Len(tables)
        /\ \A k \in 1..Len(tables) :
             LET cols == Get(tables[k].v, "columns").items IN
               /\ Len(parsed[i][k].columns) = Len(cols)
               /\ \A j \in 1..Len(cols) :
                    cols[j].t = "string" =>
                      parsed[i][k].columns[j] =
                        [name |-> cols[j], type |-> Str("TEXT"), description |-> Str("")]

C8_Witness ==
  \E i \in 1..Len(parsed) :
    /\ WellFormedB(repo.files[i])
    /\ Len(parsed[i]) = 1
    /\ Len(parsed[i][1].columns) = 2
    /\ Get(repo.files[i].data.props[1].v, "columns").items[1].t = "object"
    /\ Get(repo.files[i].data.props[1].v, "columns").items[2] = ColBare
    /\ parsed[i][1].columns[2].name = ColBare

\* the column lists the records of a parsed file come from, in order
SourceColumns(file) ==
  IF Get(file.data, "version") = Num(2)
    THEN LET ms == SelectSeq(ItemsOf(Get(file.data, "models")), NamedWithColumns)
         IN [k \in 1..Len(ms) |-> Get(ms[k], "columns").items]
    ELSE LET es == SelectSeq(Entries(file.data), KeyWithColumns)
         IN [k \in 1..Len(es) |-> Get(es[k].v, "columns").items]

\* the type a column object declares under the two synonymous keys
DeclaredTypes(col) ==
  {Get(col, key) : key \in {"data_type", "dataType"}} \ {Undefined}

\* C9 (as claimed): in either shape a column object that declares a type under
\* one of the two synonymous keys keeps a declared type, and a column object
\* gets "TEXT" only when it declares no type.
C9_SameTypingInBothShapes ==
  \A i \in 1..Len(parsed) :
    (parsed[i] # <<>> /\ (ValidShapeA(repo.files[i]) \/ ShapeB(repo.files[i]))) =>
      \A k \in 1..Len(parsed[i]) :
        \A j \in 1..Len(parsed[i][k].columns) :
          LET col == SourceColumns(repo.files[i])[k][j]
              out == parsed[i][k].columns[j]
          IN col.t = "object" =>
               /\ DeclaredTypes(col) # {} => out.type \in DeclaredTypes(col)
               /\ out.type = Str("TEXT") =>
                    \A key \in {"type", "data_type", "dataType"} : ~HasProp(col, key)

\* the documentation entry of a table: its value in the last documentation
\* file that has the key
DocFor(name) ==
  LET defs == {i \in 1..Len(repo.docFiles) :
                 /\ repo.docFiles[i].readable
                 /\ repo.docFiles[i].data.t = "object"
                 /\ HasProp(repo.docFiles[i].data, name)}
  IN IF ~repo.docsDir \/ defs = {} THEN Undefined
     ELSE Get(repo.docFiles[CHOOSE i \in defs : \A j \in defs : j <= i].data, name)

IsText(v) == v.t = "string" /\ v.s # ""

\* C10: the description of a catalog entry is the table's own description if
\* it has one, else the documentation's description for the table, else the
\* documentation's content for it, else the empty string.
C10_DescriptionPrecedence ==
  ParseReturned =>
    /\ Len(returned.schemas) = Len(allSchemas)
    /\ \A k \in 1..Len(allSchemas) :
         LET own == allSchemas[k].description
             doc == DocFor(allSchemas[k].table_name.s)
             got == returned.schemas[k].description
         IN /\ IsText(own) => got = own
            /\ (~IsText(own) /\ doc.t = "object" /\ IsText(Get(doc, "description"))) =>
                 got = Get(doc, "description")
            /\ (~IsText(own) /\ doc.t = "object" /\ ~IsText(Get(doc, "description"))
                  /\ IsText(Get(doc, "content"))) => got = Get(doc, "content")
            /\ (~IsText(own) /\ (doc.t # "object"
                  \/ (~IsText(Get(doc, "description")) /\ ~IsText(Get(doc, "content"))))) =>
                 got = Str("")
            /\ doc.t = "undefined" => got = own

C10_Witness ==
  /\ ParseReturned
  /\ \E k \in 1..Len(allSchemas) :
       /\ ~IsText(allSchemas[k].description)
       /\ returned.schemas[k].description = Str("docc2")
  /\ \E k \in 1..Len(allSchemas) :
       /\ IsText(allSchemas[k].description)
       /\ IsText(Get(DocFor(allSchemas[k].table_name.s), "description"))

(***************************************************************************)
(* The catalog of the setup run.  Table k of the catalog has a name, a     *)
(* description (most have one) and up to two columns; the names repeat     *)
(* after one batch and a half, so that a long catalog holds the same table *)
(* name in two batches (parseTuvaSchema does not merge them).              *)
(***************************************************************************)
NameCycle == batchSize + (batchSize \div 2)

Table(k) ==
  [table_name |-> Str("t" \o ToString(((k - 1) % NameCycle) + 1)),
   description |-> IF k % 3 = 0 THEN Str("") ELSE Str("d" \o ToString(k)),
   columns |-> CASE k % 10 = 1 ->
                     <<[name |-> Str("c1"), type |-> Str("TEXT"), description |-> Str("")]>>
                 [] k % 10 = 2 ->
                     <<[name |-> Str("c2"), type |-> Str("INTEGER"),
                        description |-> Str("about c2")],
                       [name |-> Str("c1"), type |-> Str("TEXT"), description |-> Str("")]>>
                 [] OTHER -> <<>>,
   full_description |-> IF k % 3 = 0 THEN Str("") ELSE Str("d" \o ToString(k))]

Catalog(n) == [k \in 1..n |-> Table(k)]

\* the catalog lengths of the model: around every multiple of the batch size
CatalogSizes ==
  {b * batchSize + d : b \in 0..MaxBatches, d \in {0, 1}} \cup {batchSize - 1}

schemas == Catalog(catalogSize)

(***************************************************************************)
(* createSchemaText, lines 96-102, and the record of lines 121-130.        *)
(***************************************************************************)
\* `${v}`
Text(v) ==
  CASE v.t = "string" -> v.s
    [] v.t = "number" -> ToString(v.n)
    [] v.t = "null" -> "null"
    [] v.t = "undefined" -> "undefined"
    [] OTHER -> "[object Object]"

\* the line of a column with its description as it is, empty or not
ColumnLineBlank(col) ==
  "  - " \o Text(col.name) \o " (" \o Text(col.type) \o "): " \o Text(col.description)

\* the callback of schema.columns.map, line 98
ColumnLine(col) ==
  "  - " \o Text(col.name) \o " (" \o Text(col.type) \o "): "
    \o Text(Or(col.description, Str("No description")))

\* the text as its lines: the parts the template of line 101 separates by \n;
\* the join of no column is the empty string, which is then the last line
createSchemaText(schema) ==
  <<Text(schema.table_name), Text(Or(schema.description, Str(""))), "Columns:">>
    \o (IF schema.columns = <<>> THEN <<"">>
        ELSE [j \in 1..Len(schema.columns) |-> ColumnLine(schema.columns[j])])

\* generateEmbedding(text): the gateway is deterministic, the vector stands for
\* the text it embeds
Embedding(text) == [embeddingOf |-> text]

\* JSON.stringify(value)
Json(value) == [json |-> value]

\* the record with a run-stamped id
VectorRecordStamped(schema) ==
  [id |-> Str(Text(schema.table_name) \o "#" \o ToString(run)),
   values |-> Embedding(createSchemaText(schema)),
   metadata |-> [table_name |-> schema.table_name,
                 description |-> Or(schema.description, Str("")),
                 columns |-> Json(schema.columns),
                 schema |-> Json(schema)]]

\* the record keyed by schema.name, a property the catalog's tables lack
VectorRecordByName(schema) ==
  [id |-> Undefined,
   values |-> Embedding(createSchemaText(schema)),
   metadata |-> [table_name |-> schema.table_name,
                 description |-> Or(schema.description, Str("")),
                 columns |-> Json(schema.columns),
                 schema |-> Json(schema)]]

\* the record returned by the callback of batch.map, lines 121-130
VectorRecord(schema) ==
  [id |-> schema.table_name,
   values |-> Embedding(createSchemaText(schema)),
   metadata |-> [table_name |-> schema.table_name,
                 description |-> Or(schema.description, Str("")),
                 columns |-> Json(schema.columns),
                 schema |-> Json(schema)]]

\* schemas.slice(i): the rest of the catalog
BatchOfRest(all, from) == SubSeq(all, from + 1, Len(all))

\* schemas.slice(i, i + batchSize), line 114 (i counts from 0)
BatchOf(all, from) == SubSeq(all, from + 1, IF from + batchSize < Len(all)
                                               THEN from + batchSize ELSE Len(all))

\* the number of the batch that starts at i: Math.floor(i / batchSize) + 1
BatchNo(from) == (from \div batchSize) + 1

\* the vector store's upsert: each record replaces the record of its id, the
\* later of two records of one id in the request replacing the earlier
Upsert(records, vectors) ==
  LET ids == {Text(vectors[k].id) : k \in 1..Len(vectors)}
      last(id) == CHOOSE k \in 1..Len(vectors) :
                    /\ Text(vectors[k].id) = id
                    /\ \A l \in (k + 1)..Len(vectors) : Text(vectors[l].id) # id
  IN [id \in ids \cup DOMAIN records |->
        IF id \in ids THEN vectors[last(id)] ELSE records[id]]

\* what an index holds that an earlier catalog was uploaded to
StaleStore ==
  ("t1" :> [id |-> Str("t1"), values |-> Embedding(<<"t1", "old", "Columns:", "">>),
            metadata |-> [table_name |-> Str("t1"), description |-> Str("old"),
                          columns |-> Json(<<>>), schema |-> Json(<<>>)]])
  @@ ("gone" :> [id |-> Str("gone"), values |-> Embedding(<<"gone", "", "Columns:", "">>),
                 metadata |-> [table_name |-> Str("gone"), description |-> Str(""),
                               columns |-> Json(<<>>), schema |-> Json(<<>>)]])

(***************************************************************************)
(* setupTuva, lines 149-179, with initializeIndex, lines 53-91, and        *)
(* uploadToPinecone, lines 107-144.  Every await is a step; the vector     *)
(* store and the embedding gateway answer in any order and may fail.       *)
(***************************************************************************)
ReadyIndex ==
  [exists |-> TRUE, ready |-> TRUE, dimension |-> EMBEDDING_DIMENSIONS, metric |-> "cosine"]

NoneInFlight == [b \in 1..(MaxBatches + 1) |-> 0]

ParserIdle ==
  /\ repo = Repo(<<>>, FALSE, <<>>)
  /\ ppc = "idle"
  /\ fileIdx = 1
  /\ allSchemas = <<>>
  /\ parsed = <<>>
  /\ documentation = Obj(<<>>)
  /\ returned = Pending
  /\ outputFile = NoFile

Init ==
  /\ ParserIdle
  /\ QueryIdle
  /\ catalogSize \in CatalogSizes
  /\ spc = "parse"
  /\ run = 1
  /\ index \in {NoIndex, ReadyIndex}
  /\ store \in (IF index.exists THEN {<<>>, StaleStore} ELSE {<<>>})
  /\ store0 = store
  /\ loopI = 0
  /\ uploaded = 0
  /\ inflight = NoneInFlight
  /\ upsertInFlight = 0
  /\ hist = NoHistory
  /\ prior = "none"

\* the catch of setupTuva, lines 175-178, is entered
Failed(error) ==
  /\ spc' = "failed"
  /\ hist' = [hist EXCEPT !.error = error]

\* const schemas = await parseTuvaSchema() returns the catalog, lines 155-156
ParseSucceeds ==
  /\ spc = "parse"
  /\ spc' = "listIndexes"
  /\ hist' = [hist EXCEPT !.parse = "catalog"]
  /\ UNCHANGED <<catalogSize, run, index, store, store0, loopI, uploaded, inflight,
                 upsertInFlight, prior, parseVars, queryVars>>

\* schemas?.length: the missing catalog is logged as undefined and the run
\* goes on to the index
ParseReturnsNothingUnnoticed ==
  /\ spc = "parse"
  /\ spc' = "listIndexes"
  /\ hist' = [hist EXCEPT !.parse = "undefined"]
  /\ UNCHANGED <<catalogSize, run, index, store, store0, loopI, uploaded, inflight,
                 upsertInFlight, prior, parseVars, queryVars>>

\* parseTuvaSchema returns undefined (no models directory): schemas.length
\* at line 156 throws
ParseReturnsNothing ==
  /\ spc = "parse"
  /\ spc' = "failed"
  /\ hist' = [hist EXCEPT !.parse = "undefined", !.error = "TypeError"]
  /\ UNCHANGED <<catalogSize, run, index, store, store0, loopI, uploaded, inflight,
                 upsertInFlight, prior, parseVars, queryVars>>

\* parseTuvaSchema rejects
ParseFails ==
  /\ spc = "parse"
  /\ spc' = "failed"
  /\ hist' = [hist EXCEPT !.parse = "rejected", !.error = "parse"]
  /\ UNCHANGED <<catalogSize, run, index, store, store0, loopI, uploaded, inflight,
                 upsertInFlight, prior, parseVars, queryVars>>

\* the index is created whether listIndexes shows it or not
ListIndexesAlwaysCreate ==
  /\ spc = "listIndexes"
  /\ hist' = [hist EXCEPT !.listCalls = @ + 1,
                          !.indexExists = IF index.exists THEN "yes" ELSE "no"]
  /\ spc' = "createIndex"
  /\ UNCHANGED <<catalogSize, run, index, store, store0, loopI, uploaded, inflight,
                 upsertInFlight, prior, parseVars, queryVars>>

\* pinecone.listIndexes() and the test of indexExists, lines 58-63: the handle
\* is returned at once when the index is listed
ListIndexes ==
  /\ spc = "listIndexes"
  /\ hist' = [hist EXCEPT !.listCalls = @ + 1,
                          !.indexExists = IF index.exists THEN "yes" ELSE "no",
                          !.handle = index.exists]
  /\ IF index.exists
       THEN spc' = "loop" /\ loopI' = 0 /\ uploaded' = 0
       ELSE spc' = "createIndex" /\ UNCHANGED <<loopI, uploaded>>
  /\ UNCHANGED <<catalogSize, run, index, store, store0, inflight, upsertInFlight,
                 prior, parseVars, queryVars>>

ListIndexesFails ==
  /\ spc = "listIndexes"
  /\ Failed("listIndexes")
  /\ UNCHANGED <<catalogSize, run, index, store, store0, loopI, uploaded, inflight,
                 upsertInFlight, prior, parseVars, queryVars>>

\* pinecone.createIndex({...}), lines 67-77: the index exists, not yet ready
CreateIndex ==
  /\ spc = "createIndex"
  /\ index' = [exists |-> TRUE, ready |-> FALSE,
               dimension |-> EMBEDDING_DIMENSIONS, metric |-> "cosine"]
  /\ hist' = [hist EXCEPT !.createCalls = @ + 1]
  /\ spc' = "waitIndex"
  /\ UNCHANGED <<catalogSize, run, store, store0, loopI, uploaded, inflight,
                 upsertInFlight, prior, parseVars, queryVars>>

CreateIndexFails ==
  /\ spc = "createIndex"
  /\ Failed("createIndex")
  /\ UNCHANGED <<catalogSize, run, index, store, store0, loopI, uploaded, inflight,
                 upsertInFlight, prior, parseVars, queryVars>>

\* the timer of line 83 fires; initializeIndex returns the handle and
\* uploadToPinecone starts
WaitElapsed ==
  /\ spc = "waitIndex"
  /\ hist' = [hist EXCEPT !.waits = @ + 1, !.handle = TRUE]
  /\ spc' = "loop"
  /\ loopI' = 0
  /\ uploaded' = 0
  /\ UNCHANGED <<catalogSize, run, index, store, store0, inflight, upsertInFlight,
                 prior, parseVars, queryVars>>

\* the vector store finishes building the index, when it does
IndexBecomesReady ==
  /\ index.exists
  /\ ~index.ready
  /\ index' = [index EXCEPT !.ready = TRUE]
  /\ UNCHANGED <<catalogSize, spc, run, store, store0, loopI, uploaded, inflight,
                 upsertInFlight, hist, prior, parseVars, queryVars>>

\* the batch is mapped without awaiting Promise.all
IssueBatchNoAwait ==
  /\ spc = "loop"
  /\ loopI < Len(schemas)
  /\ inflight' = [inflight EXCEPT ![BatchNo(loopI)] = Len(BatchOf(schemas, loopI))]
  /\ hist' = [hist EXCEPT !.embedIssued = @ \cup {BatchNo(loopI)}]
  /\ spc' = "upsert"
  /\ UNCHANGED <<catalogSize, run, index, store, store0, loopI, uploaded,
                 upsertInFlight, prior, parseVars, queryVars>>

\* one pass of the loop, lines 113-131: batch.map runs every callback up to
\* its await, so the embedding requests of the batch are all issued
IssueBatch ==
  /\ spc = "loop"
  /\ loopI < Len(schemas)
  /\ inflight' = [inflight EXCEPT ![BatchNo(loopI)] = Len(BatchOf(schemas, loopI))]
  /\ hist' = [hist EXCEPT !.embedIssued = @ \cup {BatchNo(loopI)}]
  /\ spc' = "awaitEmbeds"
  /\ UNCHANGED <<catalogSize, run, index, store, store0, loopI, uploaded,
                 upsertInFlight, prior, parseVars, queryVars>>

\* the loop ends, lines 143-144: the total is logged and the function body
\* ends without a return statement, so uploadToPinecone resolves with undefined
LoopExit ==
  /\ spc = "loop"
  /\ loopI >= Len(schemas)
  /\ spc' = "done"
  /\ hist' = [hist EXCEPT !.uploadResult = Undefined]
  /\ UNCHANGED <<catalogSize, run, index, store, store0, loopI, uploaded, inflight,
                 upsertInFlight, prior, parseVars, queryVars>>

\* an embedding request resolves; Promise.all resolves with the last one
EmbedResolves(b) ==
  /\ inflight[b] > 0
  /\ inflight' = [inflight EXCEPT ![b] = @ - 1]
  /\ spc' = IF spc = "awaitEmbeds" /\ b = BatchNo(loopI) /\ inflight[b] = 1
              THEN "upsert" ELSE spc
  /\ UNCHANGED <<catalogSize, run, index, store, store0, loopI, uploaded,
                 upsertInFlight, hist, prior, parseVars, queryVars>>

\* a failed embedding request counted as settled: the batch goes on
EmbedRejectsSkipped(b) ==
  /\ spc = "awaitEmbeds"
  /\ b = BatchNo(loopI)
  /\ inflight[b] > 0
  /\ inflight' = [inflight EXCEPT ![b] = @ - 1]
  /\ spc' = IF inflight[b] = 1 THEN "upsert" ELSE spc
  /\ hist' = [hist EXCEPT !.embedFailed = b]
  /\ UNCHANGED <<catalogSize, run, index, store, store0, loopI, uploaded,
                 upsertInFlight, prior, parseVars, queryVars>>

\* an embedding request rejects, lines 44-47: Promise.all rejects, the await
\* of line 117 throws and uploadToPinecone rejects
EmbedRejects(b) ==
  /\ spc = "awaitEmbeds"
  /\ b = BatchNo(loopI)
  /\ inflight[b] > 0
  /\ inflight' = [inflight EXCEPT ![b] = @ - 1]
  /\ spc' = "failed"
  /\ hist' = [hist EXCEPT !.embedFailed = b, !.error = "embedding"]
  /\ UNCHANGED <<catalogSize, run, index, store, store0, loopI, uploaded,
                 upsertInFlight, prior, parseVars, queryVars>>

\* index.upsert(vectors) is called, line 133; vectors holds the records of
\* the batch in the order of the batch (Promise.all keeps the order), that
\* is of the catalog positions loopI + 1 .. loopI + batch.length
UpsertIssue ==
  /\ spc = "upsert"
  /\ upsertInFlight' = BatchNo(loopI)
  /\ hist' = [hist EXCEPT !.upsertIssued = Append(@, BatchNo(loopI)),
                          !.upsertRanges =
                             Append(@, <<loopI + 1, loopI + Len(BatchOf(schemas, loopI))>>),
                          !.unreadyUpserts = @ + (IF index.ready THEN 0 ELSE 1)]
  /\ spc' = "awaitUpsert"
  /\ UNCHANGED <<catalogSize, run, index, store, store0, loopI, uploaded, inflight,
                 prior, parseVars, queryVars>>

\* the test also true when the batch ends exactly at the end of the catalog
AnotherBatchFollowsOrEnds(from) == from + batchSize <= Len(schemas)

\* the test of line 138: i + batchSize < schemas.length
AnotherBatchFollows(from) == from + batchSize < Len(schemas)

\* the upsert resolves, lines 133-140: the records are written, uploaded
\* grows, and the loop pauses when another batch follows
UpsertCompletes ==
  /\ spc = "awaitUpsert"
  /\ upsertInFlight # 0
  /\ index.ready
  /\ LET batch == BatchOf(schemas, loopI)
         vectors == [k \in 1..Len(batch) |-> VectorRecord(batch[k])]
     IN /\ store' = Upsert(store, vectors)
        /\ uploaded' = uploaded + Len(batch)
  /\ hist' = [hist EXCEPT !.upsertDone = @ \cup {upsertInFlight}]
  /\ upsertInFlight' = 0
  /\ IF AnotherBatchFollows(loopI)
       THEN spc' = "pause" /\ UNCHANGED loopI
       ELSE spc' = "loop" /\ loopI' = loopI + batchSize
  /\ UNCHANGED <<catalogSize, run, index, store0, inflight, prior, parseVars, queryVars>>

\* the upsert rejects: nothing is written and uploadToPinecone rejects
UpsertFails ==
  /\ spc = "awaitUpsert"
  /\ upsertInFlight # 0
  /\ upsertInFlight' = 0
  /\ Failed("upsert")
  /\ UNCHANGED <<catalogSize, run, index, store, store0, loopI, uploaded, inflight,
                 prior, parseVars, queryVars>>

\* the timer of line 139 fires and the loop goes on with i += batchSize
PauseElapsed ==
  /\ spc = "pause"
  /\ hist' = [hist EXCEPT !.pauses = @ + 1]
  /\ loopI' = loopI + batchSize
  /\ spc' = "loop"
  /\ UNCHANGED <<catalogSize, run, index, store, store0, uploaded, inflight,
                 upsertInFlight, prior, parseVars, queryVars>>

\* setupTuva resolves and the process exits with status 0, line 184
ExitOk ==
  /\ spc = "done"
  /\ spc' = "exit0"
  /\ UNCHANGED <<catalogSize, run, index, store, store0, loopI, uploaded, inflight,
                 upsertInFlight, hist, prior, parseVars, queryVars>>

\* process.exit(1), line 177: the requests still in flight end with the process
ExitFailure ==
  /\ spc = "failed"
  /\ spc' = "exit1"
  /\ inflight' = NoneInFlight
  /\ UNCHANGED <<catalogSize, run, index, store, store0, loopI, uploaded,
                 upsertInFlight, hist, prior, parseVars, queryVars>>

\* the operator runs setup again on the same catalog
Rerun ==
  /\ spc \in {"exit0", "exit1"}
  /\ run < MaxRuns
  /\ run' = run + 1
  /\ prior' = spc
  /\ hist' = NoHistory
  /\ spc' = "parse"
  /\ loopI' = 0
  /\ uploaded' = 0
  /\ UNCHANGED <<catalogSize, index, store, store0, inflight, upsertInFlight, parseVars, queryVars>>

Next ==
  \/ ParseSucceeds
  \/ ParseReturnsNothing
  \/ ParseFails
  \/ ListIndexes
  \/ ListIndexesFails
  \/ CreateIndex
  \/ CreateIndexFails
  \/ WaitElapsed
  \/ IndexBecomesReady
  \/ IssueBatch
  \/ LoopExit
  \/ \E b \in 1..(MaxBatches + 1) : EmbedResolves(b)
  \/ \E b \in 1..(MaxBatches + 1) : EmbedRejects(b)
  \/ UpsertIssue
  \/ UpsertCompletes
  \/ UpsertFails
  \/ PauseElapsed
  \/ ExitOk
  \/ ExitFailure
  \/ Rerun

Spec == Init /\ [][Next]_vars

(***************************************************************************)
(* Properties of the setup run, checked under Spec.                        *)
(***************************************************************************)
\* C1: once an embedding request of batch j has failed, the run is over with
\* that failure: no upsert of batch j or of a later batch and no embedding
\* request of a later batch is issued, and the run ends in failure.
C1_EmbeddingFailureAborts ==
  hist.embedFailed # 0 =>
    /\ \A k \in 1..Len(hist.upsertIssued) : hist.upsertIssued[k] < hist.embedFailed
    /\ \A b \in hist.embedIssued : b <= hist.embedFailed
    /\ upsertInFlight = 0
    /\ spc \in {"failed", "exit1"}
    /\ hist.error = "embedding"

C1_Witness ==
  /\ hist.embedFailed = 2
  /\ spc = "exit1"
  /\ catalogSize > 2 * batchSize
  /\ hist.upsertIssued = <<1>>

\* C2 (as claimed): no upsert is issued while the index is not queryable.
C2_NoUpsertBeforeReady == hist.unreadyUpserts = 0

\* the batches that have a request, embedding or upsert, in flight
BatchesInFlight ==
  {b \in DOMAIN inflight : inflight[b] > 0}
    \cup (IF upsertInFlight = 0 THEN {} ELSE {upsertInFlight})

\* C3: requests of at most one batch are in flight at any time, and the
\* embedding requests of a batch are issued only after the upsert of every
\* earlier batch has completed.
C3_BatchesSequential ==
  /\ Cardinality(BatchesInFlight) <= 1
  /\ \A b \in hist.embedIssued : \A c \in 1..(b - 1) : c \in hist.upsertDone

C3_Witness ==
  /\ hist.embedIssued = {1, 2}
  /\ hist.upsertDone = {1}
  /\ inflight[2] > 0
  /\ inflight[2] < batchSize

\* the positions of the catalog that hold the table name id
Positions(id) == {k \in 1..catalogSize : Text(Table(k).table_name) = id}
LastPosition(id) == CHOOSE k \in Positions(id) : \A l \in Positions(id) : l <= k
CatalogIds == {Text(Table(k).table_name) : k \in 1..catalogSize}

\* the record set one complete run leaves: for every table name of the catalog
\* the record of its (last) table, and the other records as they were
IsRecordOf(record, table) ==
  /\ record.id = table.table_name
  /\ record.values = Embedding(createSchemaText(table))
  /\ record.metadata.table_name = table.table_name
  /\ record.metadata.description = table.description
  /\ record.metadata.columns = Json(table.columns)
  /\ record.metadata.schema = Json(table)

\* C5: whenever a run of the index build completes, the first or a later one,
\* after runs that completed or failed part-way, the vector store holds the
\* record set of one complete run.
C5_Idempotent ==
  spc = "exit0" =>
    /\ DOMAIN store = CatalogIds \cup DOMAIN store0
    /\ \A id \in CatalogIds : IsRecordOf(store[id], Table(LastPosition(id)))
    /\ \A id \in DOMAIN store0 \ CatalogIds : store[id] = store0[id]

C5_Witness ==
  /\ spc = "exit0"
  /\ run = 2
  /\ prior = "exit0"
  /\ catalogSize > NameCycle
  /\ store0 # <<>>

(***************************************************************************)
(* The text encoder, lines 96-102, as the upload applies it (line 118).    *)
(***************************************************************************)
\* lines is the text of schema in the documented layout: name, description,
\* "Columns:", then one line per column in column order; the text of a table
\* without columns ends after the line break that follows "Columns:"
EncodedAs(schema, lines) ==
  /\ Len(lines) > 3
  /\ lines[1] = schema.table_name.s
  /\ lines[2] = schema.description.s
  /\ lines[3] = "Columns:"
  /\ IF Len(schema.columns) = 0
       THEN Len(lines) = 4 /\ lines[4] = ""
       ELSE /\ Len(lines) = 3 + Len(schema.columns)
            /\ \A j \in 1..Len(schema.columns) :
                 LET col == schema.columns[j]
                 IN lines[3 + j] =
                      "  - " \o col.name.s \o " (" \o col.type.s \o "): "
                        \o (IF col.description.s = "" THEN "No description"
                            ELSE col.description.s)

\* C11: the text every record of this run was embedded from is the text of its
\* table in the documented layout (name, description, "Columns:", one line per
\* column in order, "No description" for an empty description), and two equal
\* tables of the catalog have the same text.
C11_TextLayout ==
  /\ \A k \in 1..uploaded :
       LET record == store[Table(k).table_name.s]
       IN record.metadata.schema = Json(Table(k)) =>
            EncodedAs(Table(k), record.values.embeddingOf)
  /\ \A k \in 1..uploaded : \A l \in {k + NameCycle} \cap 1..uploaded :
       Table(k) = Table(l) => createSchemaText(Table(k)) = createSchemaText(Table(l))

C11_Witness ==
  /\ spc = "exit0"
  /\ catalogSize > NameCycle
  /\ Table(3) = Table(NameCycle + 3)
  /\ store["t12"].values.embeddingOf =
       <<"t12", "", "Columns:", "  - c2 (INTEGER): about c2",
         "  - c1 (TEXT): No description">>
  /\ store["t55"].values.embeddingOf = <<"t55", "d55", "Columns:", "">>

\* C12 (as claimed): when uploadToPinecone has completed over a catalog of n
\* tables, its result is the number n.
C12_ReturnsCount ==
  spc \in {"done", "exit0"} => hist.uploadResult = Num(catalogSize)

(***************************************************************************)
(* initializeIndex, lines 53-91.                                           *)
(***************************************************************************)
\* C13: when listIndexes shows the index, createIndex is never called and no
\* wait occurs; when it does not, the handle is returned only after exactly
\* one createIndex with dimension 1536 and the cosine metric; createIndex is
\* called in no other case.
C13_CreateIffAbsent ==
  /\ hist.indexExists = "yes" =>
       hist.handle /\ hist.createCalls = 0 /\ hist.waits = 0
  /\ (hist.indexExists = "no" /\ hist.handle) =>
       /\ hist.createCalls = 1
       /\ index.exists
       /\ index.dimension = 1536
       /\ index.metric = "cosine"
  /\ hist.createCalls > 0 => (hist.createCalls = 1 /\ hist.indexExists = "no")
  /\ hist.handle => hist.listCalls = 1

C13_Witness ==
  /\ hist.indexExists = "no"
  /\ hist.handle
  /\ hist.createCalls = 1
  /\ hist.waits = 1
  /\ index.dimension = 1536
  /\ spc = "awaitEmbeds"

(***************************************************************************)
(* The loop of uploadToPinecone, lines 113-141.                            *)
(***************************************************************************)
\* Math.ceil(schemas.length / batchSize)
BatchCount == (catalogSize + batchSize - 1) \div batchSize

\* C14: the k-th upsert of a run is the one upsert of batch k; it is issued
\* when all embedding requests of batch k have been issued and none is still
\* in flight; it carries the records of the catalog positions
\* (k-1)*100+1 .. min(k*100, n) in that order; a completed upload has issued
\* ceil(n/100) upserts.
C14_OneUpsertPerBatch ==
  /\ Len(hist.upsertRanges) = Len(hist.upsertIssued)
  /\ Len(hist.upsertIssued) <= BatchCount
  /\ \A k \in 1..Len(hist.upsertIssued) :
       /\ hist.upsertIssued[k] = k
       /\ k \in hist.embedIssued
       /\ inflight[k] = 0
       /\ hist.upsertRanges[k][1] = (k - 1) * 100 + 1
       /\ hist.upsertRanges[k][2] = (IF k * 100 < catalogSize THEN k * 100
                                     ELSE catalogSize)
  /\ spc \in {"done", "exit0"} =>
       /\ Len(hist.upsertIssued) = BatchCount
       /\ hist.upsertDone = 1..BatchCount

C14_Witness ==
  /\ spc = "done"
  /\ catalogSize = 2 * batchSize + 1
  /\ hist.upsertRanges = <<<<1, 100>>, <<101, 200>>, <<201, 201>>>>
  /\ hist.upsertIssued = <<1, 2, 3>>

\* C16: every pause follows the upsert of a batch that is not the last and
\* precedes the embedding requests of the next batch; batch b is embedded
\* after b-1 pauses; a completed upload of b batches has paused max(b-1, 0)
\* times.
C16_PauseBetweenBatches ==
  /\ hist.pauses <= Cardinality(hist.upsertDone)
  /\ hist.pauses <= (IF BatchCount > 0 THEN BatchCount - 1 ELSE 0)
  /\ \A b \in hist.embedIssued :
       hist.pauses >= b - 1 /\ (inflight[b] > 0 => hist.pauses = b - 1)
  /\ spc = "pause" =>
       /\ BatchNo(loopI) \in hist.upsertDone
       /\ BatchNo(loopI) < BatchCount
       /\ (BatchNo(loopI) + 1) \notin hist.embedIssued
       /\ hist.pauses = BatchNo(loopI) - 1
  /\ spc \in {"done", "exit0"} =>
       hist.pauses = (IF BatchCount > 0 THEN BatchCount - 1 ELSE 0)

C16_Witness ==
  /\ spc = "done"
  /\ catalogSize = 2 * batchSize
  /\ hist.pauses = 1
  /\ hist.upsertDone = {1, 2}

\* the upserts issued in this run that carry the table at position k
UpsertsOf(k) ==
  {j \in 1..Len(hist.upsertRanges) :
     hist.upsertRanges[j][1] <= k /\ k <= hist.upsertRanges[j][2]}

\* C17: when uploadToPinecone has completed, every table of the catalog was
\* carried by exactly one upsert of the run, which completed, and the store
\* holds under its table_name a record whose id and metadata.table_name are
\* that name; the uploaded total is the catalog length; for an empty catalog
\* no embedding request and no upsert is ever issued.
C17_EveryTableUpsertedOnce ==
  /\ spc \in {"done", "exit0"} =>
       /\ uploaded = catalogSize
       /\ \A k \in 1..catalogSize :
            LET name == Table(k).table_name
            IN /\ Cardinality(UpsertsOf(k)) = 1
               /\ UpsertsOf(k) \subseteq hist.upsertDone
               /\ name.t = "string"
               /\ name.s \in DOMAIN store
               /\ store[name.s].id = name
               /\ store[name.s].metadata.table_name = name
  /\ catalogSize = 0 =>
       /\ hist.embedIssued = {}
       /\ hist.upsertIssued = <<>>
       /\ store = store0

C17_Witness ==
  /\ spc = "exit0"
  /\ catalogSize = 2 * batchSize + 1
  /\ uploaded = 2 * batchSize + 1
  /\ UpsertsOf(2 * batchSize + 1) = {3}
  /\ store["t51"].id = Str("t51")
  /\ store["t51"].metadata.schema = Json(Table(2 * batchSize + 1))

(***************************************************************************)
(* setupTuva, lines 149-179: the order of its three steps.                 *)
(***************************************************************************)
\* the calls of this run to the vector store
StoreCalls ==
  hist.listCalls + hist.createCalls + Len(hist.upsertIssued)

\* C18: a run whose parse step rejected or returned no catalog never calls
\* listIndexes, createIndex or upsert (nor the embedding gateway) and ends
\* with exit status 1; in every run the vector store is called only after
\* the parse step returned a catalog, and embedding requests and upserts are
\* issued only after initializeIndex returned the handle.
C18_ParseThenIndexThenUpload ==
  /\ hist.parse \in {"undefined", "rejected"} =>
       /\ StoreCalls = 0
       /\ hist.embedIssued = {}
       /\ ~hist.handle
       /\ spc \in {"failed", "exit1"}
  /\ hist.parse = "pending" => (StoreCalls = 0 /\ hist.embedIssued = {})
  /\ StoreCalls > 0 => (hist.parse = "catalog" /\ hist.listCalls = 1)
  /\ (hist.embedIssued # {} \/ hist.upsertIssued # <<>>) => hist.handle
  /\ spc \in {"done", "exit0"} => (hist.parse = "catalog" /\ hist.handle)

C18_Witness ==
  /\ spc = "exit1"
  /\ hist.parse = "undefined"
  /\ hist.error = "TypeError"
  /\ StoreCalls = 0
  /\ catalogSize > 0
  /\ run = 2
  /\ prior = "exit0"

(***************************************************************************)
(* The keyed-map branch of parseYamlFile, lines 291-306, key by key.       *)
(***************************************************************************)
\* a table: an object with a list of columns that are bare names or objects
TableValue(v) ==
  /\ v.t = "object"
  /\ Get(v, "columns").t = "array"
  /\ \A j \in 1..Len(Get(v, "columns").items) :
       Get(v, "columns").items[j].t \in {"string", "object"}

\* another top-level value: a scalar, null, or an object without columns
OtherValue(v) ==
  \/ v.t \in {"string", "number", "null"}
  \/ v.t = "object" /\ ~HasProp(v, "columns")

\* C19 (as claimed): of a keyed-map document whose values are tables and
\* other values (scalars, null, objects without columns), the records are
\* those of the keys that hold a table, one per key, named by the key, in key
\* order, whatever the other values are.
C19_KeysIndependent ==
  \A i \in 1..Len(parsed) :
    (/\ ShapeB(repo.files[i])
     /\ \A p \in 1..Len(repo.files[i].data.props) :
          LET v == repo.files[i].data.props[p].v IN TableValue(v) \/ OtherValue(v)) =>
      LET tables == SelectSeq(Entries(repo.files[i].data), KeyWithColumns) IN
        /\ Len(parsed[i]) = Len(tables)
        /\ \A k \in 1..Len(tables) : parsed[i][k].table_name = Str(tables[k].k)

(***************************************************************************)
(* The SQL safety validator: validate(statement) -> accepted or            *)
(* rejected(reason).  A statement is the sequence of its lexical tokens:   *)
(* keywords in either case, an identifier, a string literal (which holds a *)
(* keyword and a separator), the statement separator and white space.      *)
(***************************************************************************)
Tokens == {"SELECT", "select", "WITH", "DROP", "insert", "name", "'drop;'", ";", " "}
Statements == SeqsUpTo(Tokens, MaxTokens)

\* case-folding, for the comparison with keywords only
Fold(token) ==
  CASE token = "select" -> "SELECT"
    [] token = "insert" -> "INSERT"
    [] token = "'drop;'" -> "'DROP;'"
    [] OTHER -> token

\* trimming: the statement without its leading and trailing white space
Trim(tokens) ==
  LET inked == {i \in 1..Len(tokens) : tokens[i] # " "} IN
  IF inked = {} THEN <<>>
  ELSE SubSeq(tokens, CHOOSE i \in inked : \A j \in inked : i <= j,
                      CHOOSE i \in inked : \A j \in inked : j <= i)

Normalize(tokens) == [i \in 1..Len(Trim(tokens)) |-> Fold(Trim(tokens)[i])]

BlockedKeywords ==
  {"INSERT", "UPDATE", "DELETE", "DROP", "CREATE", "ALTER", "TRUNCATE", "ATTACH", "PRAGMA"}

Accepted == [kind |-> "accepted", reason |-> "none"]
Rejected(reason) == [kind |-> "rejected", reason |-> reason]

\* the policy: reject a blocked top-level keyword, reject a separator outside
\* a string literal, accept only a statement that begins SELECT, or WITH and
\* holds a SELECT; the reason names the rule that triggered
validate(tokens) ==
  LET words == SelectSeq(Normalize(tokens), LAMBDA w : w # " ")
      blockedAt == {i \in 1..Len(words) : words[i] \in BlockedKeywords}
  IN IF blockedAt # {}
       THEN Rejected(words[CHOOSE i \in blockedAt : \A j \in blockedAt : i <= j])
     ELSE IF \E i \in 1..Len(words) : words[i] = ";"
       THEN Rejected("more than one statement")
     ELSE IF words = <<>>
       THEN Rejected("not a SELECT")
     ELSE IF words[1] = "SELECT"
       THEN Accepted
     ELSE IF words[1] = "WITH" /\ \E i \in 2..Len(words) : words[i] = "SELECT"
       THEN Accepted
     ELSE Rejected("not a SELECT")

(***************************************************************************)
(* The query orchestrator: answer(question), one request.  Its stages run  *)
(* in sequence, retrieve, author, validate, execute; every call to a       *)
(* collaborator either succeeds or fails the request with its stage.       *)
(***************************************************************************)
Failure(stage, reason) ==
  [kind |-> "failure", stage |-> stage, reason |-> reason, rowCount |-> 0]

InitQuery ==
  /\ ParserIdle
  /\ SetupIdle
  /\ qpc = "retrieve"
  /\ retrieval = <<>>
  /\ statement = <<>>
  /\ verdict = NoVerdict
  /\ executions = 0
  /\ response = NoResponse

\* retrieve the top-K tables; an empty result fails the request with
\* "no relevant schema found"
Retrieve ==
  /\ qpc = "retrieve"
  /\ \E tables \in {<<>>, <<"t1">>, <<"t1", "t2">>} :
       /\ retrieval' = tables
       /\ IF tables = <<>>
            THEN /\ response' = Failure("retrieve", "no relevant schema found")
                 /\ qpc' = "responded"
            ELSE /\ qpc' = "author"
                 /\ UNCHANGED response
  /\ UNCHANGED <<statement, verdict, executions, parseVars, setupVars>>

RetrieveFails ==
  /\ qpc = "retrieve"
  /\ response' = Failure("retrieve", "gateway")
  /\ qpc' = "responded"
  /\ UNCHANGED <<retrieval, statement, verdict, executions, parseVars, setupVars>>

\* the authoring gateway returns the text of a statement
Author ==
  /\ qpc = "author"
  /\ \E tokens \in Statements : statement' = tokens
  /\ qpc' = "validate"
  /\ UNCHANGED <<retrieval, verdict, executions, response, parseVars, setupVars>>

AuthorFails ==
  /\ qpc = "author"
  /\ response' = Failure("author", "gateway")
  /\ qpc' = "responded"
  /\ UNCHANGED <<retrieval, statement, verdict, executions, parseVars, setupVars>>

\* the rejection is noted and the statement is executed all the same
ValidateAndGoOn ==
  /\ qpc = "validate"
  /\ verdict' = validate(statement)
  /\ qpc' = "execute"
  /\ UNCHANGED <<retrieval, statement, executions, response, parseVars, setupVars>>

\* validate; on rejection fail with the rejection reason, without a retry
Validate ==
  /\ qpc = "validate"
  /\ verdict' = validate(statement)
  /\ IF validate(statement).kind = "rejected"
       THEN /\ response' = Failure("validate", validate(statement).reason)
            /\ qpc' = "responded"
       ELSE /\ qpc' = "execute"
            /\ UNCHANGED response
  /\ UNCHANGED <<retrieval, statement, executions, parseVars, setupVars>>

\* execute the validated statement; the response carries its row count
Execute ==
  /\ qpc = "execute"
  /\ executions' = executions + 1
  /\ \E rows \in 0..MaxRows :
       response' = [kind |-> "ok", stage |-> "execute", reason |-> "none",
                    rowCount |-> rows]
  /\ qpc' = "responded"
  /\ UNCHANGED <<retrieval, statement, verdict, parseVars, setupVars>>

\* the relational engine fails on the statement
ExecuteFails ==
  /\ qpc = "execute"
  /\ executions' = executions + 1
  /\ response' = Failure("execute", "engine")
  /\ qpc' = "responded"
  /\ UNCHANGED <<retrieval, statement, verdict, parseVars, setupVars>>

NextQuery ==
  \/ Retrieve
  \/ RetrieveFails
  \/ Author
  \/ AuthorFails
  \/ Validate
  \/ Execute
  \/ ExecuteFails

SpecQuery == InitQuery /\ [][NextQuery]_vars

\* C15: once the validator has rejected the statement of a request, the
\* request has ended with a failure of the validate stage that carries the
\* rejection reason, and the execution collaborator is not called, then or
\* later; it is called at most once, for an accepted statement.
C15_RejectedNeverExecuted ==
  /\ verdict.kind = "rejected" =>
       /\ validate(statement).kind = "rejected"
       /\ executions = 0
       /\ qpc = "responded"
       /\ response = Failure("validate", verdict.reason)
  /\ executions > 0 =>
       /\ executions = 1
       /\ verdict = Accepted
       /\ validate(statement) = Accepted
  /\ qpc \in {"execute", "responded"} /\ statement # <<>> =>
       verdict = validate(statement)

C15_Witness ==
  /\ statement = <<"DROP", "name", ";">>
  /\ verdict = Rejected("DROP")
  /\ response = Failure("validate", "DROP")
  /\ executions = 0
  /\ qpc = "responded"

====
